---------------------------- MODULE Spec2Model ----------------------------
(***************************************************************************)
(* Jump consistent hash (src/src/lib.rs): JumpConsistentHash { buckets,    *)
(* hash_builder }, its constructors, and get = get_bucket(prepare_key).    *)
(*                                                                         *)
(* Numbers.  TLC's integers are 32 bits wide, so                           *)
(*   - a u64 is a tuple of six 11-bit limbs, least significant first, the  *)
(*     top limb holding 9 bits (5 * 11 + 9 = 64); bit 33 is the lowest bit *)
(*     of the fourth limb, so key >> 33 is the top three limbs;            *)
(*   - an f32 is a record [s, m, e]: sign s (0 or 1), significand m in     *)
(*     2^23 .. 2^24 - 1 (or 0 for zero) and exponent e, value              *)
(*     (-1)^s * m * 2^e.  Every operation rounds to nearest, ties to even, *)
(*     as IEEE 754 binary32 does.  All floats of the loop are finite and   *)
(*     of magnitude in [1, 2^62] or zero, so there are no subnormals,      *)
(*     infinities or NaNs to represent.                                    *)
(***************************************************************************)
EXTENDS Integers, Sequences, FiniteSets

\* i32::MAX, the largest value of `buckets`, `b` and `j`
MaxI32 == 2147483647
\* i32::MIN
MinI32 == -MaxI32 - 1

\* Largest small bucket count a constructor is called with
MaxBuckets == 4
\* Number of distinct keys passed to get
NumKeys == 3

LimbBase == 2^11
TopLimbBase == 2^9
TwoPow23 == 2^23
TwoPow24 == 2^24

--------------------------------------------------------------------------
(* u64 arithmetic on limbs *)

\* Sum of x[i] * y[k-i] for i..k (0-based limb positions): column k of x * y
RECURSIVE ColumnSum(_, _, _, _)
ColumnSum(x, y, k, i) ==
    IF i > k THEN 0
    ELSE x[i + 1] * y[k - i + 1] + ColumnSum(x, y, k, i + 1)

\* Limbs k..5 of x * y + carry, the bits from 2^64 up dropped
RECURSIVE MulLimbs(_, _, _, _)
MulLimbs(x, y, k, carry) ==
    IF k > 5 THEN <<>>
    ELSE LET t == ColumnSum(x, y, k, 0) + carry
         IN <<t % (IF k = 5 THEN TopLimbBase ELSE LimbBase)>>
                \o MulLimbs(x, y, k + 1, t \div LimbBase)

\* u64::wrapping_mul
wrapping_mul(x, y) == MulLimbs(x, y, 0, 0)

\* Limbs k..5 of x + y + carry, the bits from 2^64 up dropped
RECURSIVE AddLimbs(_, _, _, _)
AddLimbs(x, y, k, carry) ==
    IF k > 5 THEN <<>>
    ELSE LET t == x[k + 1] + y[k + 1] + carry
         IN <<t % (IF k = 5 THEN TopLimbBase ELSE LimbBase)>>
                \o AddLimbs(x, y, k + 1, t \div LimbBase)

\* u64::wrapping_add
wrapping_add(x, y) == AddLimbs(x, y, 0, 0)

\* 2862933555777941757
Multiplier == <<253, 1558, 542, 1907, 946, 79>>

\* 1u64
OneU64 == <<1, 0, 0, 0, 0, 0>>

\* key >> 33, a value in 0 .. 2^31 - 1
shr33(x) == x[4] + x[5] * LimbBase + x[6] * LimbBase * LimbBase

\* A well-formed u64: every limb within its width
IsU64(x) ==
    /\ Len(x) = 6
    /\ \A i \in 1..5 : x[i] \in 0..(LimbBase - 1)
    /\ x[6] \in 0..(TopLimbBase - 1)

--------------------------------------------------------------------------
(* f32 arithmetic *)

RECURSIVE BitLen(_)
BitLen(n) == IF n = 0 THEN 0 ELSE 1 + BitLen(n \div 2)

F32Zero == [s |-> 0, m |-> 0, e |-> 0]

\* The float of significand q (24 bits), guard bit g and sticky flag st,
\* rounded to nearest, ties to even
RoundF32(s, q, g, st, e) ==
    LET r == q + (IF g = 1 /\ (st \/ q % 2 = 1) THEN 1 ELSE 0)
    IN IF r = TwoPow24 THEN [s |-> s, m |-> TwoPow23, e |-> e + 1]
       ELSE [s |-> s, m |-> r, e |-> e]

\* 2^31 as a float: (1u64 << 31) as f32, also the magnitude of i32::MIN
TwoPow31F32 == [s |-> 0, m |-> TwoPow23, e |-> 8]

\* A non-negative integer below 2^31 as a float of sign s
MagToF32(s, mag) ==
    LET k == BitLen(mag)
    IN IF k = 0 THEN F32Zero
       ELSE IF k <= 24 THEN [s |-> s, m |-> mag * 2^(24 - k), e |-> k - 24]
       ELSE LET sh == k - 24
                rem == mag % 2^sh
            IN RoundF32(s, mag \div 2^sh, rem \div 2^(sh - 1),
                        rem % 2^(sh - 1) # 0, sh)

\* n as f32 for an i32 n
I32ToF32(n) ==
    IF n = MinI32 THEN [TwoPow31F32 EXCEPT !.s = 1]
    ELSE IF n < 0 THEN MagToF32(1, -n)
    ELSE MagToF32(0, n)

\* n fractional quotient bits of r / y appended to acc; <<quotient, remainder>>
RECURSIVE DivBits(_, _, _, _)
DivBits(r, y, n, acc) ==
    IF n = 0 THEN <<acc, r>>
    ELSE IF 2 * r >= y THEN DivBits(2 * r - y, y, n - 1, 2 * acc + 1)
    ELSE DivBits(2 * r, y, n - 1, 2 * acc)

\* x / y on f32, y not zero
F32Div(x, y) ==
    IF x.m = 0 THEN F32Zero
    ELSE LET n == IF x.m >= y.m THEN 24 ELSE 25
             qr == DivBits(x.m % y.m, y.m, n, x.m \div y.m)
         IN RoundF32((x.s + y.s) % 2, qr[1] \div 2, qr[1] % 2, qr[2] # 0,
                     x.e - y.e - n + 1)

\* x * y on f32: the 48-bit product of the significands from 12-bit halves
F32Mul(x, y) ==
    IF x.m = 0 \/ y.m = 0 THEN F32Zero
    ELSE LET xh == x.m \div 4096
             xl == x.m % 4096
             yh == y.m \div 4096
             yl == y.m % 4096
             mid == xh * yl + xl * yh
             lowsum == xl * yl + (mid % 4096) * 4096
             low == lowsum % TwoPow24
             high == xh * yh + mid \div 4096 + lowsum \div TwoPow24
             s == (x.s + y.s) % 2
         IN IF high >= TwoPow23
            THEN RoundF32(s, high, low \div TwoPow23, low % TwoPow23 # 0,
                          x.e + y.e + 24)
            ELSE RoundF32(s, 2 * high + low \div TwoPow23,
                          (low \div 2^22) % 2, low % 2^22 # 0,
                          x.e + y.e + 23)

\* x as i32: truncation toward zero, saturating at i32::MIN and i32::MAX
F32ToI32(x) ==
    IF x.m = 0 THEN 0
    ELSE IF x.e >= 8 THEN (IF x.s = 1 THEN MinI32 ELSE MaxI32)
    ELSE LET mag == IF x.e >= 0 THEN x.m * 2^x.e
                    ELSE IF x.e <= -24 THEN 0
                    ELSE x.m \div 2^(-x.e)
         IN IF x.s = 1 THEN -mag ELSE mag

\* i32::wrapping_add(b, 1)
wrapping_add_i32(n) == IF n = MaxI32 THEN MinI32 ELSE n + 1

--------------------------------------------------------------------------
(* The engine and its callers *)

\* Threads calling get on the one engine
Threads == {1, 2}
\* The keys passed to get
Keys == 1..NumKeys
\* BuildHasher instances: 0 is BuildHasherDefault<DefaultHasher>, 1 a custom
\* builder (a RandomState)
DefaultBuilder == 0
Builders == {0, 1}
\* Bucket counts beyond the 24 bits of an f32 significand, and i32::MAX
LargeBuckets == {1073741824, 1073741825, MaxI32}
\* Arguments the constructors are called with
CtorArgs == (-1..MaxBuckets) \cup LargeBuckets \cup {MinI32}

\* 64-bit digests the hashers produce:
\*   13144974413992634209, 0, 8667597555738505288,
\*   16880185955779977890, 4221933174817773826, 10549505550282116132
DigestTable ==
    << <<1889, 1060, 1662, 586, 1733, 364>>,
       <<0, 0, 0, 0, 0, 0>>,
       <<72, 718, 1879, 1798, 1175, 240>>,
       <<674, 436, 1107, 984, 1063, 468>>,
       <<258, 1643, 569, 237, 373, 117>>,
       <<1060, 633, 1538, 1971, 1653, 292>> >>

VARIABLES
    status,        \* "none": nothing constructed; "ok": the engine exists;
                   \* "panicked": the constructor's assert failed
    requested,     \* the bucket count the constructor was called with
    buckets,       \* JumpConsistentHash.buckets
    hash_builder,  \* JumpConsistentHash.hash_builder
    pc,            \* per thread: "idle", "loop" (inside get_bucket), "done"
    arg,           \* per thread: the key of its call of get
    key,           \* per thread: get_bucket's `key`
    b,             \* per thread: get_bucket's `b`
    j,             \* per thread: get_bucket's `j`
    iters,         \* per thread: loop bodies executed by the call
    ret,           \* per thread: the value get returned
    overlap,       \* per thread: another call ran loop steps during this one
    seen           \* per key: the values get has returned for it

engine == <<status, requested, buckets, hash_builder>>
locals == <<pc, arg, key, b, j, iters, ret, overlap>>
vars == <<status, requested, buckets, hash_builder, pc, arg, key, b, j,
          iters, ret, overlap, seen>>

\* assert!(buckets > 0)
ValidBucketsOrZero(n) == n >= 0
ValidBuckets(n) == n > 0

\* hasher.finish() of a fresh hasher of the builder fed the key: a fixed
\* function of (builder, key)
prepare_key_reused_hasher(h, k) ==
    DigestTable[((k - 1 + 3 * h + Cardinality({x \in Keys : seen[x] # {}}))
                    % Len(DigestTable)) + 1]
prepare_key(h, k) == DigestTable[((k - 1 + 3 * h) % Len(DigestTable)) + 1]

\* let mut b = 1
InitB == 1
\* let mut j = 0
InitJ == 0

\* while j < self.buckets
LoopCondInclusive(jv, n) == jv <= n
LoopCond(jv, n) == jv < n

\* key.wrapping_mul(2862933555777941757).wrapping_add(1)
LcgStep(kv) == wrapping_add(wrapping_mul(kv, Multiplier), OneU64)

\* ((key >> 33) + 1) as f32; the sum is 2^31 when key >> 33 is 2^31 - 1
DenomF32(kv) ==
    IF shr33(kv) = MaxI32 THEN TwoPow31F32 ELSE I32ToF32(shr33(kv) + 1)

\* ((b.wrapping_add(1) as f32) * (((1u64 << 31) as f32) / (((key >> 33) + 1) as f32))) as i32
NextCandidateNoIncrement(bv, kv) ==
    F32ToI32(F32Mul(I32ToF32(bv), F32Div(TwoPow31F32, DenomF32(kv))))
NextCandidate(bv, kv) ==
    F32ToI32(F32Mul(I32ToF32(wrapping_add_i32(bv)),
                    F32Div(TwoPow31F32, DenomF32(kv))))

\* the value get_bucket returns: b
ReturnCandidate(bv, jv) == jv
ReturnValue(bv, jv) == bv

\* The storage of a call's b, j and key: the call's own
SharedSlot(t) == 1
Slot(t) == t

\* get_bucket run alone on a digest
RECURSIVE Loop(_, _, _, _)
Loop(n, kv, bv, jv) ==
    IF LoopCond(jv, n)
    THEN Loop(n, LcgStep(kv), jv, NextCandidate(jv, LcgStep(kv)))
    ELSE ReturnValue(bv, jv)

get_bucket(n, digest) == Loop(n, digest, InitB, InitJ)

Init ==
    /\ status = "none"
    /\ requested = 0
    /\ buckets = 0
    /\ hash_builder = DefaultBuilder
    /\ pc = [t \in Threads |-> "idle"]
    /\ arg = [t \in Threads |-> 1]
    /\ key = [t \in Threads |-> DigestTable[2]]
    /\ b = [t \in Threads |-> InitB]
    /\ j = [t \in Threads |-> InitJ]
    /\ iters = [t \in Threads |-> 0]
    /\ ret = [t \in Threads |-> 0]
    /\ overlap = [t \in Threads |-> FALSE]
    /\ seen = [k \in Keys |-> {}]

\* JumpConsistentHash::new_with_hash_builder(n, h)
new_with_hash_builder(n, h) ==
    /\ status = "none"
    /\ requested' = n
    /\ IF ValidBuckets(n)
       THEN /\ status' = "ok"
            /\ buckets' = n
            /\ hash_builder' = h
       ELSE /\ status' = "panicked"
            /\ UNCHANGED <<buckets, hash_builder>>
    /\ UNCHANGED <<locals, seen>>

\* JumpConsistentHash::new(n)
new(n) == new_with_hash_builder(n, DefaultBuilder)

\* JumpConsistentHash::from(n)
from(n) == new(n)

\* get(&k) up to the loop: prepare_key, then get_bucket's b = 1 and j = 0
get(t, k) ==
    /\ status = "ok"
    /\ pc[t] = "idle"
    /\ pc' = [pc EXCEPT ![t] = "loop"]
    /\ arg' = [arg EXCEPT ![t] = k]
    /\ key' = [key EXCEPT ![Slot(t)] = prepare_key(hash_builder, k)]
    /\ b' = [b EXCEPT ![t] = InitB]
    /\ j' = [j EXCEPT ![t] = InitJ]
    /\ iters' = [iters EXCEPT ![t] = 0]
    /\ overlap' = [overlap EXCEPT ![t] = FALSE]
    /\ UNCHANGED <<engine, ret, seen>>

\* One iteration of the loop of get_bucket
LoopIter(t) ==
    /\ pc[t] = "loop"
    /\ LoopCond(j[t], buckets)
    /\ LET k2 == LcgStep(key[Slot(t)])
           others == {u \in Threads \ {t} : pc[u] = "loop" /\ iters[u] >= 1}
       IN /\ b' = [b EXCEPT ![t] = j[t]]
          /\ key' = [key EXCEPT ![Slot(t)] = k2]
          /\ j' = [j EXCEPT ![t] = NextCandidate(j[t], k2)]
          /\ overlap' = [u \in Threads |->
                            IF others # {} /\ u \in others \cup {t}
                            THEN TRUE ELSE overlap[u]]
    /\ iters' = [iters EXCEPT ![t] = @ + 1]
    /\ UNCHANGED <<engine, pc, arg, ret, seen>>

\* The loop condition fails: get_bucket returns b and the locals go
LoopExit(t) ==
    /\ pc[t] = "loop"
    /\ ~LoopCond(j[t], buckets)
    /\ LET r == ReturnValue(b[t], j[t])
       IN /\ ret' = [ret EXCEPT ![t] = r]
          /\ seen' = [seen EXCEPT ![arg[t]] = @ \cup {r}]
    /\ pc' = [pc EXCEPT ![t] = "done"]
    /\ UNCHANGED <<engine, arg, key, b, j, iters, overlap>>

\* The caller takes the result
Return(t) ==
    /\ pc[t] = "done"
    /\ pc' = [pc EXCEPT ![t] = "idle"]
    /\ key' = [key EXCEPT ![Slot(t)] = DigestTable[2]]
    /\ b' = [b EXCEPT ![t] = InitB]
    /\ j' = [j EXCEPT ![t] = InitJ]
    /\ iters' = [iters EXCEPT ![t] = 0]
    /\ ret' = [ret EXCEPT ![t] = 0]
    /\ arg' = [arg EXCEPT ![t] = 1]
    /\ overlap' = [overlap EXCEPT ![t] = FALSE]
    /\ UNCHANGED <<engine, seen>>

Next ==
    \/ \E n \in CtorArgs : new(n)
    \/ \E n \in CtorArgs, h \in Builders : new_with_hash_builder(n, h)
    \/ \E n \in CtorArgs : from(n)
    \/ \E t \in Threads, k \in Keys : get(t, k)
    \/ \E t \in Threads : LoopIter(t)
    \/ \E t \in Threads : LoopExit(t)
    \/ \E t \in Threads : Return(t)

Spec == Init /\ [][Next]_vars

--------------------------------------------------------------------------
(* Properties *)

\* The digest of the call thread t is in or has finished
DigestOf(t) == prepare_key(hash_builder, arg[t])

\* C1 (range): every value get returns on an engine of N buckets lies in
\* 0 .. N - 1, and the loop body ran at least once before the return, so the
\* value returned is never the initial value of b.
C1_Range ==
    \A t \in Threads :
        pc[t] = "done" => /\ 0 <= ret[t]
                          /\ ret[t] < buckets
                          /\ iters[t] >= 1

\* A call returned the last bucket of an engine of at least three buckets
C1_Witness ==
    \E t \in Threads :
        pc[t] = "done" /\ buckets >= 3 /\ ret[t] = buckets - 1

\* C2 (minimal remap): for the digest of every finished call on an engine of
\* N buckets, an engine of N + 1 buckets returns either the same bucket or the
\* new bucket N.
C2_MinimalRemap ==
    \A t \in Threads :
        (pc[t] = "done" /\ buckets < MaxI32) =>
            get_bucket(buckets + 1, DigestOf(t)) \in {ret[t], buckets}

\* A finished call whose key moves to the new bucket when one is added
C2_Witness ==
    \E t \in Threads :
        /\ pc[t] = "done"
        /\ buckets < MaxI32
        /\ buckets >= 2
        /\ ret[t] # buckets
        /\ get_bucket(buckets + 1, DigestOf(t)) = buckets

\* C3 (construction validation): a constructor called with a bucket count
\* <= 0 fails and leaves no engine (no call of get ever starts); called with a
\* bucket count >= 1 it yields an engine holding exactly that count.  Every
\* engine that exists has at least one bucket.
C3_ConstructionValidation ==
    /\ status \in {"none", "ok", "panicked"}
    /\ status = "ok" => /\ requested >= 1
                        /\ buckets = requested
                        /\ buckets >= 1
    /\ status = "panicked" => requested <= 0
    /\ status # "ok" => /\ \A t \in Threads : pc[t] = "idle"
                        /\ \A k \in Keys : seen[k] = {}

\* The constructor was called with 0 and failed
C3_Witness == status = "panicked" /\ requested = 0

\* C4 (determinism, statelessness): all calls of get with one key return the
\* same bucket, whatever other calls ran before or between them, and no step
\* taken once the engine exists changes its bucket count or hash builder.
C4_Determinism ==
    /\ [](\A k \in Keys : Cardinality(seen[k]) <= 1)
    /\ [][status = "ok" => /\ status' = "ok"
                           /\ buckets' = buckets
                           /\ hash_builder' = hash_builder]_vars

\* Two calls with the same key have both returned, after a call with another
\* key returned
C4_Witness ==
    /\ pc[1] = "done"
    /\ pc[2] = "done"
    /\ arg[1] = arg[2]
    /\ iters[1] >= 2
    /\ \E k \in Keys \ {arg[1]} : seen[k] # {}

\* C5 (one bucket): on an engine of one bucket every call returns 0 and its
\* loop body runs exactly once.
C5_OneBucket ==
    \A t \in Threads :
        (status = "ok" /\ buckets = 1) =>
            /\ iters[t] <= 1
            /\ pc[t] = "done" => (ret[t] = 0 /\ iters[t] = 1)

\* A call on an engine of one bucket returned
C5_Witness ==
    \E t \in Threads : buckets = 1 /\ pc[t] = "done" /\ iters[t] = 1

\* C6 (termination bound): a call on an engine of N buckets never runs more
\* than N loop bodies.
C6_TerminationBound ==
    \A t \in Threads : status = "ok" => iters[t] <= buckets

\* A call returned after exactly N loop bodies, N >= 3
C6_Witness ==
    \E t \in Threads :
        pc[t] = "done" /\ buckets >= 3 /\ iters[t] = buckets

\* C7 (concurrent use): whatever the interleaving of the threads' loop steps,
\* every call returns the bucket get_bucket computes for its digest when run
\* alone.
C7_ConcurrentUse ==
    \A t \in Threads :
        pc[t] = "done" => ret[t] = get_bucket(buckets, DigestOf(t))

\* A call of at least two loop bodies returned after another call's loop
\* steps were interleaved with its own
C7_Witness ==
    \E t \in Threads : pc[t] = "done" /\ overlap[t] /\ iters[t] >= 2

\* C9 (totality): inside the loop the working key is a 64-bit value (the LCG
\* step wrapped), key >> 33 lies in 0 .. 2^31 - 1 so the denominator
\* (key >> 33) + 1 lies in 1 .. 2^31, b is below i32::MAX so b + 1 does not
\* overflow, and a call in the loop can always take its next step: there is
\* no error outcome.
C9_Totality ==
    /\ \A t \in Threads : pc[t] \in {"idle", "loop", "done"}
    /\ \A t \in Threads :
        pc[t] = "loop" =>
            /\ IsU64(key[t])
            /\ shr33(key[t]) >= 0
            /\ shr33(key[t]) <= MaxI32
            /\ b[t] < MaxI32
            /\ LoopCond(j[t], buckets) => IsU64(LcgStep(key[t]))

\* A call in the loop whose denominator is 2^31, the largest
C9_Witness ==
    \E t \in Threads :
        pc[t] = "loop" /\ iters[t] >= 1 /\ shr33(key[t]) = MaxI32

\* C10 (forward jumps): after every loop body the new candidate j is strictly
\* greater than the bucket b accepted in it.
C10_ForwardJumps ==
    \A t \in Threads :
        (pc[t] = "loop" /\ iters[t] >= 1) => j[t] >= b[t] + 1

==========================================================================
